---- MODULE Spec2Model ----
(***************************************************************************)
(* Model of fastcounter.py: a memcache-backed counter whose accumulated    *)
(* delta is flushed to the datastore by a task about once per              *)
(* update_interval.                                                        *)
(*                                                                         *)
(* Every memcache, task queue and datastore call of incr is one atomic     *)
(* step, so concurrent requests interleave between any two of them.        *)
(***************************************************************************)
EXTENDS Integers, Sequences, FiniteSets, TLC

\* ---------------------------------------------------------------- bounds
\* Width of the unsigned memcache counter (64 in production, scaled down).
WordBits == 6
\* Total number of incr calls in one behaviour.
MaxCalls == 3
\* Largest update_interval, in clock ticks.
MaxInterval == 1
\* Largest number of deliveries of one task under at-least-once delivery.
MaxRuns == 2
\* Number of incr calls in one behaviour of the specifications that add
\* faults, evictions, step-by-step transactions or fairness.
MaxFaultCalls == 2

\* memcache's "no value": a missing key, a failed incr/decr, no initial_value.
None == -1
Modulus == 2 ^ WordBits
BASE_VALUE == 2 ^ (WordBits - 1)

Names == {"x", "y"}
\* Requests that may be inside incr at the same time.
Procs == {1, 2, 3}
Intervals == 1..MaxInterval
\* The calls incr(name, delta) a behaviour draws from.
Calls == {<<"x", -4>>, <<"x", 0>>, <<"x", 2>>, <<"x", 3>>, <<"x", 5>>, <<"y", -4>>}
\* The calls drawn from when every collaborator may fail; the largest
\* decrement takes a fresh counter to the bottom of the unsigned range.
FaultCalls == {<<"x", 0>>, <<"x", 5>>, <<"y", -4>>, <<"y", 0 - BASE_VALUE>>}

\* The calls drawn from when the range of the slot is at stake: one of them
\* takes the offset close to the end of the range, the others add nothing.
RangeCalls == {<<"x", BASE_VALUE - 2>>, <<"x", 0>>, <<"x", 2 - BASE_VALUE>>}

VARIABLES
    ctr_val,          \* memcache "ctr_val:" + name : None or the raw unsigned value
    ctr_lck,          \* memcache "ctr_lck:" + name : remaining time to live, 0 = absent
    Counter,          \* datastore entity per name : [present, value]
    queue,            \* tasks accepted by the task queue, with their delivery count
    pc,               \* position of each request inside incr
    name,             \* incr's arguments and locals, per request
    delta,
    update_interval,
    v,
    delta_to_persist,
    failed,
    ncalls,           \* history: number of incr calls started
    log,              \* history: per name, the calls whose cache update took effect:
                      \*   delta, whether the call won the gate, what it then found to persist
    idx,              \* history: the place of each request's call in log[name]
    winsInWindow,     \* history: per name, adds that succeeded since the flag was last absent
    before,           \* history: get_count(name) when the call started
    undisturbed,      \* history: nobody else changed the call's counter since it started
    overlap,          \* history: another call's flush corrected the cache since it started
    txn               \* per task worker: the datastore transaction it is running

vars == <<ctr_val, ctr_lck, Counter, queue, pc, name, delta, update_interval, v,
          delta_to_persist, failed, ncalls, log, idx, winsInWindow, before,
          undisturbed, overlap, txn>>

locals == <<name, delta, update_interval, v, delta_to_persist, failed>>

\* ------------------------------------------------------------- memcache
Max(a, b) == IF a >= b THEN a ELSE b

\* memcache.incr: 64-bit unsigned, wraps; a missing key starts at initial_value,
\* and without one the call fails (None).  The result is the new stored value.
memcache_incr(slot, d, initial_value) ==
    IF slot = None
    THEN IF initial_value = None THEN None ELSE (initial_value + d) % Modulus
    ELSE (slot + d) % Modulus

\* memcache.decr: like incr, but "it does not underflow": capped at zero.
memcache_decr(slot, d, initial_value) ==
    IF slot = None
    THEN IF initial_value = None THEN None ELSE Max(initial_value - d, 0)
    ELSE Max(slot - d, 0)

\* Mutant: the flag is set, not added: every caller is told it created it.
memcache_add_always(lck) == TRUE

\* memcache.add(lock_key, None, time=...): True iff the key was absent.
memcache_add(lck) == lck = 0

\* ----------------------------------------------------------------- incr
\* Mutant: the magnitude of a negative delta is added instead of subtracted.
cache_update_abs(slot, d) ==
    memcache_incr(slot, IF d >= 0 THEN d ELSE -d, BASE_VALUE)

\* Mutant: a zero delta falls back to the default delta of 1.
cache_update_default(slot, d) ==
    IF d > 0 THEN memcache_incr(slot, d, BASE_VALUE)
    ELSE IF d = 0 THEN memcache_incr(slot, 1, BASE_VALUE)
    ELSE memcache_decr(slot, -d, BASE_VALUE)

\* Lines 77-80: add a non-negative delta, subtract the magnitude of a negative one.
cache_update(slot, d) ==
    IF d >= 0 THEN memcache_incr(slot, d, BASE_VALUE)
    ELSE memcache_decr(slot, -d, BASE_VALUE)

\* Mutant: the raw value is persisted, BASE_VALUE included.
persist_delta_raw(raw) == raw

\* Lines 86-87: what the winner of the gate asks the task to persist.
persist_delta(raw) == raw - BASE_VALUE

\* Mutant: the subtract-back is forgotten.
cache_correct_skip(slot, D) == slot

\* Mutant: only a positive delta is taken back out.
cache_correct_posonly(slot, D) ==
    IF D > 0 THEN memcache_decr(slot, D, None) ELSE slot

\* Mutant: the correction is applied with the sign of the delta.
cache_correct_samesign(slot, D) ==
    IF D > 0 THEN memcache_incr(slot, D, None)
    ELSE IF D < 0 THEN memcache_decr(slot, -D, None)
    ELSE slot

\* Lines 105-110: the enqueued delta is taken back out, without initial_value.
cache_correct(slot, D) ==
    IF D > 0 THEN memcache_decr(slot, D, None)
    ELSE IF D < 0 THEN memcache_incr(slot, -D, None)
    ELSE slot

\* ------------------------------------------------------------ datastore
NoCounter == [present |-> FALSE, value |-> 0]

\* Task handlers that may run at the same time.
Workers == {1, 2}

\* A worker outside a transaction; inside one it holds the task it executes,
\* the entity as Counter.get_by_key_name read it and the number of commits
\* the entity had then.
NoTxn == [job |-> 0, c |-> NoCounter, ver |-> 0]

\* Mutant: an existing record is set to the delta instead of increased by it.
incr_counter_set(c, d) == [present |-> TRUE, value |-> d]

\* Mutant: a new record is created empty and the delta is dropped.
incr_counter_zero(c, d) ==
    IF ~c.present
    THEN [present |-> TRUE, value |-> 0]
    ELSE [c EXCEPT !.value = @ + d]

\* Mutant: an execution that finds the record deletes it.
incr_counter_drop(c, d) ==
    IF ~c.present
    THEN [present |-> TRUE, value |-> d]
    ELSE NoCounter

\* CounterPersistIncr.incr_counter, the transaction body.
incr_counter(c, d) ==
    IF ~c.present
    THEN [present |-> TRUE, value |-> d]
    ELSE [c EXCEPT !.value = @ + d]

\* Number of commits the entity of n has had: one per execution of a task on n.
RECURSIVE CommitsTo(_, _)
CommitsTo(n, k) ==
    IF k = 0 THEN 0
    ELSE CommitsTo(n, k - 1) + (IF queue[k].name = n THEN queue[k].runs ELSE 0)

Commits(n) == CommitsTo(n, Len(queue))

\* Number of executions of task j that are inside their transaction.
Running(j) == Cardinality({w \in Workers : txn[w].job = j})

\* Mutant: the commit never checks whether the entity changed since it was read.
txn_collides_never(ver_read, ver_now) == FALSE

\* db.run_in_transaction: the commit collides when the entity was committed
\* by somebody else since the transaction read it.
txn_collides(ver_read, ver_now) == ver_read # ver_now

\* ------------------------------------------------------------ read path
\* int(memcache.get(key) or BASE_VALUE) - BASE_VALUE: "or" replaces every
\* falsy value, a missing key and a stored 0 alike.
get_count_fmc(slot) ==
    (IF slot = None \/ slot = 0 THEN BASE_VALUE ELSE slot) - BASE_VALUE

get_count_of(c, slot) ==
    IF c.present THEN c.value + get_count_fmc(slot) ELSE get_count_fmc(slot)

get_count(n) == get_count_of(Counter[n], ctr_val[n])

\* (db_counts[i] and db_counts[i].value) or 0
get_counts_db(c) == IF c.present /\ c.value # 0 THEN c.value ELSE 0

\* int(mc_counts.get(name, BASE_VALUE)) - BASE_VALUE
get_counts_mc(slot) == (IF slot = None THEN BASE_VALUE ELSE slot) - BASE_VALUE

get_counts(names) ==
    [i \in 1..Len(names) |->
        get_counts_db(Counter[names[i]]) + get_counts_mc(ctr_val[names[i]])]

\* ---------------------------------------------------------------- history
Returned(p) == pc[p] \in {"idle", "done", "raised"}

\* Counter n was changed by request p (p = 0: by a task, or by memcache itself):
\* every other request that is in, or has just left, a call on n is disturbed.
Touch(p, n) ==
    /\ undisturbed' = [q \in Procs |-> undisturbed[q] /\ (q = p \/ name[q] # n)]
    /\ before' = [q \in Procs |-> IF undisturbed[q] /\ (q = p \/ name[q] # n)
                                  THEN before[q] ELSE 0]

\* The locals of a request that has returned are gone.
Return(p, to) ==
    /\ pc' = [pc EXCEPT ![p] = to]
    /\ v' = [v EXCEPT ![p] = None]
    /\ update_interval' = [update_interval EXCEPT ![p] = 1]
    /\ delta_to_persist' = [delta_to_persist EXCEPT ![p] = 0]

\* --------------------------------------------------------------- actions
Init ==
    /\ ctr_val = [n \in Names |-> None]
    /\ ctr_lck = [n \in Names |-> 0]
    /\ Counter = [n \in Names |-> NoCounter]
    /\ queue = <<>>
    /\ pc = [p \in Procs |-> "idle"]
    /\ name = [p \in Procs |-> "x"]
    /\ delta = [p \in Procs |-> 0]
    /\ update_interval = [p \in Procs |-> 1]
    /\ v = [p \in Procs |-> None]
    /\ delta_to_persist = [p \in Procs |-> 0]
    /\ failed = [p \in Procs |-> FALSE]
    /\ ncalls = 0
    /\ log = [n \in Names |-> <<>>]
    /\ idx = [p \in Procs |-> 0]
    /\ winsInWindow = [n \in Names |-> 0]
    /\ before = [p \in Procs |-> 0]
    /\ undisturbed = [p \in Procs |-> FALSE]
    /\ overlap = [p \in Procs |-> FALSE]
    /\ txn = [w \in Workers |-> NoTxn]

\* incr, lines 76-80: a request (the first free one) enters incr and updates
\* memcache.  ok = FALSE is the cache being unavailable: nothing is stored and
\* v is None.
IncrCache(p, n, d, u, ok) ==
    /\ Returned(p)
    /\ \A q \in Procs : q < p => ~Returned(q)
    /\ ncalls < MaxCalls
    /\ LET r == IF ok THEN cache_update(ctr_val[n], d) ELSE None
       IN  /\ v' = [v EXCEPT ![p] = r]
           /\ ctr_val' = IF r = None THEN ctr_val ELSE [ctr_val EXCEPT ![n] = r]
           /\ log' = IF r = None THEN log
                     ELSE [log EXCEPT ![n] =
                             Append(@, [delta |-> d, won |-> FALSE, D |-> 0])]
           /\ idx' = [idx EXCEPT ![p] = IF r = None THEN 0 ELSE Len(log[n]) + 1]
    /\ pc' = [pc EXCEPT ![p] = "add"]
    /\ name' = [name EXCEPT ![p] = n]
    /\ delta' = [delta EXCEPT ![p] = d]
    /\ update_interval' = [update_interval EXCEPT ![p] = u]
    /\ delta_to_persist' = [delta_to_persist EXCEPT ![p] = 0]
    /\ failed' = [failed EXCEPT ![p] = FALSE]
    /\ ncalls' = ncalls + 1
    /\ undisturbed' = [q \in Procs |-> IF q = p THEN TRUE
                                       ELSE undisturbed[q] /\ name[q] # n]
    /\ before' = [q \in Procs |-> IF q = p THEN get_count(n)
                                  ELSE IF undisturbed[q] /\ name[q] # n
                                  THEN before[q] ELSE 0]
    /\ overlap' = [overlap EXCEPT ![p] = FALSE]
    /\ UNCHANGED <<ctr_lck, Counter, queue, winsInWindow, txn>>

\* incr, lines 82-89: the throttle gate.  ok = FALSE is memcache.add failing
\* for another reason than the key being present.
LockAdd(p, ok) ==
    /\ pc[p] = "add"
    /\ IF ok /\ memcache_add(ctr_lck[name[p]])
       THEN /\ ctr_lck' = [ctr_lck EXCEPT ![name[p]] = update_interval[p]]
            /\ winsInWindow' = [winsInWindow EXCEPT ![name[p]] = @ + 1]
            /\ IF v[p] = None
               THEN \* int(None) raises TypeError
                    /\ Return(p, "raised")
                    /\ UNCHANGED log
               ELSE /\ log' = [log EXCEPT ![name[p]][idx[p]] =
                                 [@ EXCEPT !.won = TRUE, !.D = persist_delta(v[p])]]
                    /\ IF persist_delta(v[p]) = 0
                       THEN Return(p, "done")   \* nothing to save
                       ELSE /\ delta_to_persist' =
                                  [delta_to_persist EXCEPT ![p] = persist_delta(v[p])]
                            /\ pc' = [pc EXCEPT ![p] = "enqueue"]
                            /\ UNCHANGED <<v, update_interval>>
       ELSE /\ Return(p, "done")
            /\ UNCHANGED <<ctr_lck, winsInWindow, log>>
    /\ UNCHANGED <<ctr_val, Counter, queue, name, delta, failed, ncalls, idx,
                   before, undisturbed, overlap, txn>>

\* Mutant: the call goes on to the subtract-back even when the queue refused
\* the task.
Enqueue_anyway(p, ok) ==
    /\ pc[p] = "enqueue"
    /\ queue' = IF ok
                THEN Append(queue, [name |-> name[p], delta |-> delta_to_persist[p],
                                    call |-> idx[p], runs |-> 0])
                ELSE queue
    /\ pc' = [pc EXCEPT ![p] = "subtract"]
    /\ UNCHANGED <<ctr_val, ctr_lck, Counter, name, delta, update_interval, v,
                   delta_to_persist, failed, ncalls, log, idx, winsInWindow, before,
                   undisturbed, overlap, txn>>

\* incr, lines 91-101: taskqueue.add; ok = FALSE is the queue raising.
Enqueue(p, ok) ==
    /\ pc[p] = "enqueue"
    /\ IF ok
       THEN /\ queue' = Append(queue, [name |-> name[p], delta |-> delta_to_persist[p],
                                       call |-> idx[p], runs |-> 0])
            /\ pc' = [pc EXCEPT ![p] = "subtract"]
            /\ UNCHANGED <<v, update_interval, delta_to_persist>>
       ELSE /\ Return(p, "done")
            /\ UNCHANGED queue
    /\ UNCHANGED <<ctr_val, ctr_lck, Counter, name, delta, failed, ncalls, log, idx,
                   winsInWindow, before, undisturbed, overlap, txn>>

\* incr, lines 103-113: take the enqueued delta back out of memcache.
ResetCache(p) ==
    /\ pc[p] = "subtract"
    /\ LET n == name[p]
           D == delta_to_persist[p]
           r == cache_correct(ctr_val[n], D)
       IN  /\ ctr_val' = IF r = None THEN ctr_val ELSE [ctr_val EXCEPT ![n] = r]
           /\ failed' = [failed EXCEPT ![p] = (r = None)]
           /\ overlap' = [q \in Procs |->
                            overlap[q] \/ (q # p /\ name[q] = n /\ r # None)]
           /\ Touch(p, n)
    /\ Return(p, "done")
    /\ UNCHANGED <<ctr_lck, Counter, queue, name, delta, ncalls, log, idx,
                   winsInWindow, txn>>

\* Mutant: the handler is never run.
post_never(j, maxruns) == FALSE /\ UNCHANGED vars

\* CounterPersistIncr.post: one delivery of task j; a task is delivered at
\* most maxruns times.
post(j, maxruns) ==
    /\ j \in 1..Len(queue)
    /\ queue[j].runs < maxruns
    /\ Counter' = [Counter EXCEPT ![queue[j].name] = incr_counter(@, queue[j].delta)]
    /\ queue' = [queue EXCEPT ![j].runs = @ + 1]
    /\ Touch(0, queue[j].name)
    /\ UNCHANGED <<ctr_val, ctr_lck, pc, locals, ncalls, log, idx, winsInWindow,
                   overlap, txn>>

\* CounterPersistIncr.post step by step, lines 121 and 125: a delivery of task
\* j opens its transaction and reads the entity.
TxnBegin(w, j, maxruns) ==
    /\ txn[w].job = 0
    /\ j \in 1..Len(queue)
    /\ queue[j].runs + Running(j) < maxruns
    /\ txn' = [txn EXCEPT ![w] = [job |-> j, c |-> Counter[queue[j].name],
                                   ver |-> Commits(queue[j].name)]]
    /\ UNCHANGED <<ctr_val, ctr_lck, Counter, queue, pc, locals, ncalls, log, idx,
                   winsInWindow, before, undisturbed, overlap>>

\* Lines 126-130 and the commit: put() of the entity computed from what was
\* read; on a collision run_in_transaction runs incr_counter again, which
\* reads the entity anew.
TxnCommit(w) ==
    /\ txn[w].job # 0
    /\ LET j == txn[w].job
           n == queue[j].name
       IN  IF txn_collides(txn[w].ver, Commits(n))
           THEN /\ txn' = [txn EXCEPT ![w] = [job |-> j, c |-> Counter[n],
                                              ver |-> Commits(n)]]
                /\ UNCHANGED <<Counter, queue, before, undisturbed>>
           ELSE /\ Counter' = [Counter EXCEPT ![n] = incr_counter(txn[w].c, queue[j].delta)]
                /\ queue' = [queue EXCEPT ![j].runs = @ + 1]
                /\ txn' = [txn EXCEPT ![w] = NoTxn]
                /\ Touch(0, n)
    /\ UNCHANGED <<ctr_val, ctr_lck, pc, locals, ncalls, log, idx, winsInWindow,
                   overlap>>

\* One clock tick: every throttle flag is one tick closer to its expiry.
Tick ==
    /\ \E n \in Names : ctr_lck[n] > 0
    /\ ctr_lck' = [n \in Names |-> Max(ctr_lck[n] - 1, 0)]
    /\ winsInWindow' = [n \in Names |-> IF ctr_lck[n] <= 1 THEN 0 ELSE winsInWindow[n]]
    /\ UNCHANGED <<ctr_val, Counter, queue, pc, locals, ncalls, log, idx, before,
                   undisturbed, overlap, txn>>

\* memcache evicts the counter's value.
EvictVal(n) ==
    /\ ctr_val[n] # None
    /\ ctr_val' = [ctr_val EXCEPT ![n] = None]
    /\ Touch(0, n)
    /\ UNCHANGED <<ctr_lck, Counter, queue, pc, locals, ncalls, log, idx,
                   winsInWindow, overlap, txn>>

\* memcache evicts the throttle flag before its expiry.
EvictLck(n) ==
    /\ ctr_lck[n] > 0
    /\ ctr_lck' = [ctr_lck EXCEPT ![n] = 0]
    /\ UNCHANGED <<ctr_val, Counter, queue, pc, locals, ncalls, log, idx,
                   winsInWindow, before, undisturbed, overlap, txn>>

\* --------------------------------------------------------- specifications
\* No eviction, a working cache, every task delivered at most once; the task
\* queue may still refuse a task.
NextNoLoss ==
    \/ \E p \in Procs, c \in Calls, u \in Intervals : IncrCache(p, c[1], c[2], u, TRUE)
    \/ \E p \in Procs : LockAdd(p, TRUE)
    \/ \E p \in Procs, ok \in BOOLEAN : Enqueue(p, ok)
    \/ \E p \in Procs : ResetCache(p)
    \/ \E j \in 1..MaxCalls : post(j, 1)
    \/ Tick

SpecNoLoss == Init /\ [][NextNoLoss]_vars

\* Every outcome the collaborators allow.
Next ==
    \/ \E p \in Procs, c \in FaultCalls, u \in Intervals, ok \in BOOLEAN :
          ncalls < MaxFaultCalls /\ IncrCache(p, c[1], c[2], u, ok)
    \/ \E p \in Procs, ok \in BOOLEAN : LockAdd(p, ok)
    \/ \E p \in Procs, ok \in BOOLEAN : Enqueue(p, ok)
    \/ \E p \in Procs : ResetCache(p)
    \/ \E j \in 1..MaxCalls : post(j, MaxRuns)
    \/ Tick
    \/ \E n \in Names : EvictVal(n)
    \/ \E n \in Names : EvictLck(n)

Spec == Init /\ [][Next]_vars

\* The calls with a non-negative delta.
PlusCalls == {c \in Calls : c[2] >= 0}

\* Memcache may lose the value or the flag at any moment; nothing else fails:
\* the cache answers, the queue accepts every task and delivers it once.
NextEvict ==
    \/ \E p \in Procs, c \in PlusCalls, u \in Intervals :
          ncalls < MaxFaultCalls /\ IncrCache(p, c[1], c[2], u, TRUE)
    \/ \E p \in Procs : LockAdd(p, TRUE)
    \/ \E p \in Procs : Enqueue(p, TRUE)
    \/ \E p \in Procs : ResetCache(p)
    \/ \E j \in 1..MaxCalls : post(j, 1)
    \/ Tick
    \/ \E n \in Names : EvictVal(n)
    \/ \E n \in Names : EvictLck(n)

SpecEvict == Init /\ [][NextEvict]_vars

\* The tasks of a fault-free cache and queue, delivered at least once, with
\* the handlers' transactions interleaving step by step.
NextTxn ==
    \/ \E p \in Procs, c \in Calls, u \in Intervals :
          ncalls < MaxFaultCalls /\ IncrCache(p, c[1], c[2], u, TRUE)
    \/ \E p \in Procs : LockAdd(p, TRUE)
    \/ \E p \in Procs : Enqueue(p, TRUE)
    \/ \E p \in Procs : ResetCache(p)
    \/ \E w \in Workers, j \in 1..MaxCalls : TxnBegin(w, j, MaxRuns)
    \/ \E w \in Workers : TxnCommit(w)
    \/ Tick

SpecTxn == Init /\ [][NextTxn]_vars

\* No eviction, a working cache, a queue that may refuse a task and runs every
\* task it accepted exactly once.
NextLive ==
    \/ \E p \in Procs, c \in Calls, u \in Intervals :
          ncalls < MaxFaultCalls /\ IncrCache(p, c[1], c[2], u, TRUE)
    \/ \E p \in Procs : LockAdd(p, TRUE)
    \/ \E p \in Procs, ok \in BOOLEAN : Enqueue(p, ok)
    \/ \E p \in Procs : ResetCache(p)
    \/ \E j \in 1..MaxCalls : post(j, 1)
    \/ Tick

\* The task queue keeps delivering a task it accepted until it has run.
SpecLive ==
    /\ Init /\ [][NextLive]_vars
    /\ \A j \in 1..MaxCalls : WF_vars(post(j, 1))

\* No fault at all: calls and flushes interleave, flags expire, every task is
\* accepted and runs once.
NextRange ==
    \/ \E p \in Procs, c \in RangeCalls, u \in Intervals : IncrCache(p, c[1], c[2], u, TRUE)
    \/ \E p \in Procs : LockAdd(p, TRUE)
    \/ \E p \in Procs : Enqueue(p, TRUE)
    \/ \E p \in Procs : ResetCache(p)
    \/ \E j \in 1..MaxCalls : post(j, 1)
    \/ Tick

SpecRange == Init /\ [][NextRange]_vars

\* No fault at all and only non-negative deltas.
NextPlus ==
    \/ \E p \in Procs, c \in PlusCalls, u \in Intervals : IncrCache(p, c[1], c[2], u, TRUE)
    \/ \E p \in Procs : LockAdd(p, TRUE)
    \/ \E p \in Procs : Enqueue(p, TRUE)
    \/ \E p \in Procs : ResetCache(p)
    \/ \E j \in 1..MaxCalls : post(j, 1)
    \/ Tick

SpecPlus == Init /\ [][NextPlus]_vars

\* ------------------------------------------------- quantities of the claims
RECURSIVE SumDeltas(_)
SumDeltas(s) == IF s = <<>> THEN 0 ELSE s[1].delta + SumDeltas(Tail(s))

\* Sum of the deltas of the calls on n whose cache increment has taken effect.
Applied(n) == SumDeltas(log[n])

\* Sum of the deltas of the calls on n that came after the i-th.
AppliedAfter(n, i) == SumDeltas(SubSeq(log[n], i + 1, Len(log[n])))

DeltasOf(n) == [i \in 1..Len(log[n]) |-> log[n][i].delta]

\* raw slot - BASE_VALUE, 0 if the slot is absent.
Offset(n) == IF ctr_val[n] = None THEN 0 ELSE ctr_val[n] - BASE_VALUE

\* The durable value, 0 if the record is absent.
Durable(n) == IF Counter[n].present THEN Counter[n].value ELSE 0

JobsOf(n) == {j \in 1..Len(queue) : queue[j].name = n}

\* Sum of the deltas of the tasks on n submitted and not yet executed.
RECURSIVE PendingTo(_, _)
PendingTo(n, k) ==
    IF k = 0 THEN 0
    ELSE PendingTo(n, k - 1)
         + (IF queue[k].name = n /\ queue[k].runs = 0 THEN queue[k].delta ELSE 0)

Pending(n) == PendingTo(n, Len(queue))

\* Sum, over the tasks on n, of delta times the number of executions.
RECURSIVE ExecutedTo(_, _)
ExecutedTo(n, k) ==
    IF k = 0 THEN 0
    ELSE ExecutedTo(n, k - 1)
         + (IF queue[k].name = n THEN queue[k].delta * queue[k].runs ELSE 0)

Executed(n) == ExecutedTo(n, Len(queue))

InCall(p, n) == ~Returned(p) /\ name[p] = n

\* The task, if any, submitted by the call request p is in or has just left.
JobOf(p) == {j \in JobsOf(name[p]) : idx[p] > 0 /\ queue[j].call = idx[p]}

\* ------------------------------------------------------------------ C1
\* C1: with no eviction and every task delivered at most once, whenever no
\* call on a name is between its accepted submission and its subtract-back,
\* durable value + cache offset + deltas of the pending tasks equals the sum
\* of the deltas of the calls whose cache increment has taken effect.
C1_Conservation ==
    \A n \in Names :
        (\A p \in Procs : ~(pc[p] = "subtract" /\ name[p] = n))
            => Durable(n) + Offset(n) + Pending(n) = Applied(n)

\* Two calls both won the gate and flushed, one overlapping the other; one
\* task has run and one is pending.
C1_Witness ==
    \E p \in Procs :
        /\ pc[p] = "done" /\ overlap[p] /\ JobOf(p) # {}
        /\ \A q \in Procs : Returned(q)
        /\ Cardinality(JobsOf(name[p])) = 2
        /\ Counter[name[p]].present
        /\ Pending(name[p]) # 0
        /\ Offset(name[p]) # 0

\* ------------------------------------------------------------------ C2
\* C2: as long as no call on a name has found anything to persist (in
\* particular when no call on it has won the gate), under every interleaving
\* get_count is the exact sum of the deltas applied, no task has been
\* submitted and the record is still absent.
C2_NoLostUpdate ==
    \A n \in Names :
        (\A i \in 1..Len(log[n]) : log[n][i].D = 0)
            => /\ get_count(n) = Applied(n)
               /\ JobsOf(n) = {}
               /\ ~Counter[n].present
               /\ \A p \in Procs : InCall(p, n) => pc[p] = "add"

\* Three calls on x have returned, two of them concurrent; a positive and a
\* negative one lost the gate and nothing was ever found to persist.
C2_Witness ==
    /\ \A p \in Procs : Returned(p)
    /\ pc[2] = "done"
    /\ Len(log["x"]) = 3
    /\ \A i \in 1..3 : log["x"][i].D = 0
    /\ \E i, j \in 1..3 : /\ log["x"][i].delta > 0 /\ ~log["x"][i].won
                          /\ log["x"][j].delta < 0 /\ ~log["x"][j].won
    /\ get_count("x") # 0

\* ------------------------------------------------------------------ C3
\* The state part of C3: once a call has had its task accepted and has taken
\* the delta back out of the cache, with no other call's subtract-back since
\* it started, the cache offset is the sum of the deltas of the calls whose
\* increment came after its own; every task carries the delta its call found.
C3_Flushed ==
    /\ \A p \in Procs :
          (pc[p] = "done" /\ JobOf(p) # {} /\ ~failed[p] /\ ~overlap[p])
              => Offset(name[p]) = AppliedAfter(name[p], idx[p])
    /\ \A j \in 1..Len(queue) :
          queue[j].delta = log[queue[j].name][queue[j].call].D

\* The step part of C3: one execution of a task adds exactly its delta to the
\* durable value.
C3_Run ==
    \A j \in 1..Len(queue) :
        queue'[j].runs = queue[j].runs + 1
            => /\ Counter'[queue[j].name].present
               /\ Counter'[queue[j].name].value =
                      Durable(queue[j].name) + queue[j].delta

\* C3: after a successful flush of D with a successful correction and no
\* overlapping flush, the cache offset is the sum of the increments that took
\* effect after the winner's own, and a run of the task adds exactly D to the
\* durable value.
C3_FlushResult == [](C3_Flushed) /\ [][C3_Run]_vars

\* A call flushed D, another call's increment is what the cache now holds, and
\* the task has run: the record holds D.
C3_Witness ==
    \E p \in Procs :
        /\ pc[p] = "done" /\ JobOf(p) # {} /\ ~failed[p] /\ ~overlap[p]
        /\ AppliedAfter(name[p], idx[p]) # 0
        /\ Offset(name[p]) = AppliedAfter(name[p], idx[p])
        /\ \A j \in JobOf(p) : queue[j].runs = 1 /\ Durable(name[p]) = queue[j].delta

\* ------------------------------------------------------------------ C4
\* C4 as stated: get_count right after incr(name, 0), with nobody else having
\* touched the counter, equals get_count right before the call.
C4_Original ==
    \A p \in Procs :
        (pc[p] = "done" /\ delta[p] = 0 /\ undisturbed[p])
            => get_count(name[p]) = before[p]

\* C4 amended: the same, for the calls incr(name, 0) that submit no task.
C4_NoopUnlessFlushed ==
    \A p \in Procs :
        (pc[p] = "done" /\ delta[p] = 0 /\ undisturbed[p] /\ JobOf(p) = {})
            => get_count(name[p]) = before[p]

\* incr(name, 0) returned on a counter with a non-zero count, undisturbed and
\* without submitting a task.
C4_Witness ==
    \E p \in Procs :
        /\ pc[p] = "done" /\ delta[p] = 0 /\ undisturbed[p] /\ JobOf(p) = {}
        /\ before[p] # 0
        /\ get_count(name[p]) = before[p]

\* ------------------------------------------------------------------ C5
\* The lists of distinct names.
DistinctLists ==
    {s \in UNION {[1..k -> Names] : k \in 0..Cardinality(Names)} :
        \A i, j \in DOMAIN s : i # j => s[i] # s[j]}

\* C5: in every reachable state get_counts(names) has, in order, the values
\* get_count returns for each name.
C5_BatchEqualsSingle ==
    \A names \in DistinctLists :
        get_counts(names) = [i \in 1..Len(names) |-> get_count(names[i])]

\* ------------------------------------------------------------------ C6
\* The state part of C6: while flags are only removed by expiry, at most one
\* add succeeds per lifetime of a flag, and the flag is set exactly while that
\* success is current; every task was submitted by a call that won the gate,
\* and no call submitted two.
C6_Gate ==
    /\ \A n \in Names : /\ winsInWindow[n] <= 1
                        /\ (winsInWindow[n] = 1) <=> (ctr_lck[n] > 0)
    /\ \A j \in 1..Len(queue) :
          /\ queue[j].call \in 1..Len(log[queue[j].name])
          /\ log[queue[j].name][queue[j].call].won
    /\ \A i, j \in 1..Len(queue) :
          (i # j /\ queue[i].name = queue[j].name) => queue[i].call # queue[j].call

\* The step part of C6: a call wins the gate only when no flag is present,
\* and its win sets the flag for update_interval.
C6_Win ==
    \A p \in Procs :
        (pc[p] = "add" /\ idx[p] > 0 /\ log'[name[p]][idx[p]].won)
            => /\ ctr_lck[name[p]] = 0
               /\ ctr_lck'[name[p]] = update_interval[p]

\* C6: at most one call wins the gate per lifetime of the flag, none wins
\* while the flag is present, and tasks are submitted by winners only, one each.
C6_OneWinnerPerWindow == [](C6_Gate) /\ [][C6_Win]_vars

\* Three calls on one name, two of them concurrent: one lost the gate, two won
\* in different windows and each submitted its task; the flag is set.
C6_Witness ==
    \E n \in Names :
        /\ Len(log[n]) = 3
        /\ Cardinality({i \in 1..3 : log[n][i].won}) = 2
        /\ Cardinality(JobsOf(n)) = 2
        /\ pc[2] = "done"
        /\ ctr_lck[n] > 0

\* ------------------------------------------------------------------ C7
\* C7: the durable value of a name is the sum, over its tasks, of the task's
\* delta times the number of times the task was executed, and the record
\* exists as soon as one of them was executed: k executions of a task add k
\* times its delta.
C7_NotIdempotent ==
    \A n \in Names :
        /\ Counter[n].present <=> (\E j \in JobsOf(n) : queue[j].runs > 0)
        /\ Durable(n) = Executed(n)

\* The only task of a name was executed twice: the record, absent before,
\* holds twice its delta.
C7_Witness ==
    \E j \in 1..Len(queue) :
        /\ queue[j].runs = 2
        /\ queue[j].delta # 0
        /\ JobsOf(queue[j].name) = {j}
        /\ Counter[queue[j].name] = [present |-> TRUE, value |-> 2 * queue[j].delta]

\* ------------------------------------------------------------------ C8
\* Request 2 was never needed: the calls ran one after the other.
Sequential == pc[2] = "idle"

\* On the brand-new counter x exactly incr(x, 5) and then incr(x, 3) have
\* completed, and no task on x has run.
C8_After ==
    /\ DeltasOf("x") = <<5, 3>>
    /\ \A p \in Procs : ~InCall(p, "x")
    /\ \A j \in JobsOf("x") : queue[j].runs = 0

\* ... the second right after the first: it found the first call's flag set.
C8_Immediately == Sequential /\ ~log["x"][2].won

\* C8 as stated: then get_count("x") = 8 and x has no record.
C8_Original ==
    (C8_After /\ C8_Immediately)
        => get_count("x") = 8 /\ ~Counter["x"].present

\* C8 amended: x has no record and get_count plus the pending tasks is 8; the
\* first call won the gate, so get_count is 3 with the task {x, 5} pending,
\* and 8 only when the queue refused that task.
C8_FirstCallFlushes ==
    C8_After
        => /\ ~Counter["x"].present
           /\ get_count("x") + Pending("x") = 8
           /\ C8_Immediately
                => /\ log["x"][1].won /\ log["x"][1].D = 5
                   /\ \/ JobsOf("x") = {} /\ get_count("x") = 8
                      \/ /\ Cardinality(JobsOf("x")) = 1
                         /\ \A j \in JobsOf("x") : queue[j].delta = 5
                         /\ get_count("x") = 3

\* The scenario with the first call's task accepted: get_count("x") is 3.
C8_Witness ==
    /\ C8_After /\ C8_Immediately
    /\ JobsOf("x") # {}
    /\ get_count("x") = 3

\* ------------------------------------------------------------------ C9
\* incr(x, 5), incr(x, 3), incr(x, 2) ran one after the other and have
\* completed; when incr(x, 2) started x had offset 8 and neither a record nor
\* a task (whatever x has now comes from incr(x, 2)), and the flag had expired
\* when it reached the gate.
C9_After ==
    /\ DeltasOf("x") = <<5, 3, 2>>
    /\ Sequential /\ pc[1] = "done"
    /\ \A j \in JobsOf("x") : queue[j].call = 3
    /\ log["x"][3].won

\* C9 as stated: the task carries 10, the offset is corrected to 2, and once
\* the task has run the durable value is 10 and get_count("x") = 12.
C9_Original ==
    (C9_After /\ JobsOf("x") # {})
        => /\ \A j \in JobsOf("x") : queue[j].delta = 10
           /\ Offset("x") = 2
           /\ \A j \in JobsOf("x") :
                 queue[j].runs = 1 => Durable("x") = 10 /\ get_count("x") = 12

\* C9 amended: the task carries 10, the call's own 2 included, so the offset
\* is corrected to 0; once the task has run the durable value is 10 and
\* get_count("x") = 10.
C9_OwnDeltaFlushed ==
    C9_After
        => /\ log["x"][3].D = 10
           /\ JobsOf("x") = {} => Offset("x") = 10 /\ get_count("x") = 10
           /\ \A j \in JobsOf("x") :
                 /\ queue[j].delta = 10
                 /\ Offset("x") = 0
                 /\ queue[j].runs = 0 => ~Counter["x"].present /\ get_count("x") = 0
                 /\ queue[j].runs = 1
                       => /\ Counter["x"] = [present |-> TRUE, value |-> 10]
                          /\ get_count("x") = 10

\* The scenario with the task accepted and run.
C9_Witness ==
    /\ C9_After
    /\ \E j \in JobsOf("x") : queue[j].runs = 1
    /\ get_count("x") = 10

\* ----------------------------------------------------------------- C10
\* On the brand-new counter y exactly incr(y, -4) has completed, and no task
\* on y has run.
C10_After ==
    /\ DeltasOf("y") = <<-4>>
    /\ \A p \in Procs : ~InCall(p, "y")
    /\ \A j \in JobsOf("y") : queue[j].runs = 0

\* C10 as stated: the offset is -4, get_count("y") = -4 and y has no record.
C10_Original ==
    C10_After
        => Offset("y") = -4 /\ get_count("y") = -4 /\ ~Counter["y"].present

\* C10 amended: y has no record and the call has won the gate; with its task
\* {y, -4} accepted the offset and get_count("y") are back to 0, and they are
\* -4 only when the queue refused the task.
C10_FirstCallFlushes ==
    C10_After
        => /\ ~Counter["y"].present
           /\ log["y"][1].won /\ log["y"][1].D = -4
           /\ JobsOf("y") = {} => Offset("y") = -4 /\ get_count("y") = -4
           /\ JobsOf("y") # {}
                 => /\ \A j \in JobsOf("y") : queue[j].delta = -4
                    /\ Offset("y") = 0
                    /\ get_count("y") = 0

\* The scenario with the task accepted.
C10_Witness ==
    /\ C10_After
    /\ JobsOf("y") # {}
    /\ get_count("y") = 0

\* ----------------------------------------------------------------- C11
\* C11: whatever the collaborators answer (the cache update failing, the flag
\* created or not, the queue refusing the task, the subtract-back failing),
\* no request ever leaves incr by an exception.
C11_NeverRaises == \A p \in Procs : pc[p] # "raised"

\* ----------------------------------------------------------------- C12
\* Sum of the deltas of the tasks in S.
RECURSIVE JobSumTo(_, _)
JobSumTo(S, k) ==
    IF k = 0 THEN 0
    ELSE JobSumTo(S, k - 1) + (IF k \in S THEN queue[k].delta ELSE 0)

JobSum(S) == JobSumTo(S, Len(queue))

\* Sum of the deltas of the first k calls on n.
AppliedUpTo(n, k) == SumDeltas(SubSeq(log[n], 1, k))

\* The i-th call on n won the gate with something to persist, the queue
\* refused its task and the call has returned.
Refused(n, i) ==
    /\ log[n][i].won /\ log[n][i].D # 0
    /\ \A j \in JobsOf(n) : queue[j].call # i
    /\ \A p \in Procs : ~(name[p] = n /\ idx[p] = i /\ pc[p] = "enqueue")

\* The step part of C12: a call the queue refuses returns normally, leaving
\* the queue and the cache as they are; a call goes on to the subtract-back
\* only with its task in the queue.
C12_Refusal ==
    \A p \in Procs :
        /\ (pc[p] = "enqueue" /\ pc'[p] # "enqueue" /\ queue' = queue)
              => pc'[p] = "done" /\ ctr_val' = ctr_val /\ Counter' = Counter
        /\ (pc[p] = "enqueue" /\ pc'[p] = "subtract")
              => /\ Len(queue') = Len(queue) + 1
                 /\ queue'[Len(queue')].delta = delta_to_persist[p]

\* The state part of C12: what a winner of the gate finds to persist is the
\* sum of all deltas applied up to its own, less the deltas of tasks accepted
\* from earlier calls that were already taken back out of the cache; the delta
\* of a refused task is never taken out, so a later winner carries it.
C12_Carried ==
    \A n \in Names : \A k \in 1..Len(log[n]) :
        log[n][k].won
            => /\ \E S \in SUBSET {j \in JobsOf(n) : queue[j].call < k} :
                     log[n][k].D = AppliedUpTo(n, k) - JobSum(S)
               /\ \A i \in 1..(k - 1) :
                     (Refused(n, i) /\ \A j \in JobsOf(n) : queue[j].call >= k)
                        => log[n][k].D = log[n][i].D + AppliedAfter(n, i)
                                            - AppliedAfter(n, k)

\* C12: a refused submission returns normally without a task and without a
\* further cache operation, and with no eviction the next winner of the gate
\* persists a delta that includes the refused one.
C12_RefusedDeltaKept == [](C12_Carried) /\ [][C12_Refusal]_vars

\* A call was refused with D # 0; a later call won the gate and its task, in
\* the queue, carries the refused delta plus what was applied since.
C12_Witness ==
    \E n \in Names : \E i, k \in 1..Len(log[n]) :
        /\ i < k
        /\ Refused(n, i)
        /\ log[n][k].won
        /\ \A p \in Procs : Returned(p)
        /\ \E j \in JobsOf(n) :
              /\ queue[j].call = k
              /\ queue[j].delta = log[n][i].D + AppliedAfter(n, i) - AppliedAfter(n, k)
        /\ Durable(n) + Offset(n) + Pending(n) = Applied(n)

\* ----------------------------------------------------------------- C13
\* No request is inside incr and every task has been executed.
Quiescent ==
    /\ \A p \in Procs : Returned(p)
    /\ \A j \in 1..Len(queue) : queue[j].runs > 0

\* C13: when the only faults are evictions of the counter's value or of the
\* throttle flag, deltas are non-negative, every task is accepted and executed
\* exactly once, then with no call in progress and no task pending get_count
\* is at most the sum of the deltas passed to incr.
C13_UndercountOnly ==
    Quiescent => \A n \in Names : get_count(n) <= Applied(n)

\* ----------------------------------------------------------------- C14
\* The state part of C14: with the handlers' transactions interleaved in any
\* way, duplicates included, the durable value of a name is always the sum of
\* the deltas of the executions committed so far (0 and no record before the
\* first), and a transaction that can still commit holds the current entity.
C14_Sum ==
    /\ \A n \in Names :
          /\ Durable(n) = Executed(n)
          /\ Counter[n].present <=> Commits(n) > 0
    /\ \A w \in Workers :
          (txn[w].job # 0 /\ ~txn_collides(txn[w].ver, Commits(queue[txn[w].job].name)))
              => txn[w].c = Counter[queue[txn[w].job].name]

\* The step part of C14: a commit adds exactly the task's delta to the value
\* the record has at that moment, creating the record with value = delta when
\* it is absent, and touches no other name.
C14_Commit ==
    \A j \in 1..Len(queue) :
        queue'[j].runs = queue[j].runs + 1
            => /\ Counter'[queue[j].name] =
                      [present |-> TRUE, value |-> Durable(queue[j].name) + queue[j].delta]
               /\ \A m \in Names \ {queue[j].name} : Counter'[m] = Counter[m]

\* C14: the read-modify-write of the record is atomic per name.
C14_AtomicPerName == [](C14_Sum) /\ [][C14_Commit]_vars

\* Two tasks on one name were executed three times in all, and an execution
\* still in its transaction read the record before the others committed.
C14_Witness ==
    \E n \in Names : \E w \in Workers :
        /\ Cardinality(JobsOf(n)) = 2
        /\ Commits(n) = 3
        /\ txn[w].job \in JobsOf(n)
        /\ txn[w].c = NoCounter
        /\ Counter[n].present /\ Counter[n].value = Executed(n)

\* ----------------------------------------------------------------- C15
\* Every task the queue accepted is eventually executed.
C15_EveryJobRuns ==
    \A j \in 1..MaxCalls :
        (j <= Len(queue)) ~> (j <= Len(queue) /\ queue[j].runs = 1)

\* Again and again the durable value of a name is the sum of the deltas of
\* all tasks accepted for it.
C15_DurableCatchesUp ==
    \A n \in Names : []<>(Durable(n) = JobSum(JobsOf(n)))

\* With every call returned and the queue drained, get_count is the sum of
\* the deltas passed to incr.
C15_Drained ==
    Quiescent => \A n \in Names : get_count(n) = Applied(n)

\* C15: under fair, exactly-once delivery every accepted task is eventually
\* applied and the durable value reaches the sum of the accepted deltas; with
\* no eviction, whenever all calls have returned and the queue is drained
\* get_count is the sum of all deltas passed to incr.
C15_Liveness == C15_EveryJobRuns /\ C15_DurableCatchesUp /\ [](C15_Drained)

\* Two calls on x have returned, one task was refused and one was accepted and
\* has run; get_count(x) is the sum of both deltas.
C15_Witness ==
    /\ Quiescent
    /\ Len(log["x"]) = 2
    /\ Cardinality(JobsOf("x")) = 1
    /\ \E i \in 1..2 : Refused("x", i)
    /\ Durable("x") # 0
    /\ Offset("x") # 0
    /\ get_count("x") = Applied("x")

\* ----------------------------------------------------------------- C16
\* The state part of C16: a call is at its subtract-back only with its own
\* task, carrying exactly its non-zero delta_to_persist, already in the queue,
\* and only a call that went through the subtract-back reports a failure.
C16_Ordered ==
    \A p \in Procs :
        /\ pc[p] = "subtract"
              => /\ delta_to_persist[p] # 0
                 /\ \E j \in JobOf(p) : queue[j].delta = delta_to_persist[p]
        /\ failed[p] => pc[p] = "done" /\ JobOf(p) # {}

\* The step part of C16: the subtract-back is one cache operation of inverse
\* sign, after which the call has returned; on a missing slot it fails, the
\* slot stays missing and the queue is left alone.  Nothing else a call does
\* after its own increment changes the cache.
C16_SubtractBack ==
    \A p \in Procs :
        /\ (pc[p] = "subtract" /\ pc'[p] # "subtract")
              => LET n == name[p]
                     D == delta_to_persist[p]
                 IN  /\ pc'[p] = "done"
                     /\ queue' = queue
                     /\ Counter' = Counter
                     /\ IF ctr_val[n] = None
                        THEN ctr_val'[n] = None /\ failed'[p]
                        ELSE /\ ~failed'[p]
                             /\ D > 0 => ctr_val'[n] = Max(ctr_val[n] - D, 0)
                             /\ D < 0 => ctr_val'[n] = (ctr_val[n] + (0 - D)) % Modulus
        /\ (pc[p] \in {"add", "enqueue"} /\ pc'[p] # pc[p]) => ctr_val' = ctr_val

\* C16: the subtract-back of D comes only after the call's task carrying D
\* was accepted, has the inverse sign, happens at most once per call, and its
\* failure is neither retried nor repaired.
C16_FlushOrdering == [](C16_Ordered) /\ [][C16_SubtractBack]_vars

\* A call whose task {y, -4} was accepted found the slot evicted at its
\* subtract-back: it has returned with failed set, the slot is still missing
\* and the task is still the only one.
C16_Witness ==
    \E p \in Procs :
        /\ pc[p] = "done" /\ failed[p] /\ name[p] = "y"
        /\ ctr_val["y"] = None
        /\ Cardinality(JobsOf("y")) = 1
        /\ \A j \in JobOf(p) : queue[j].delta = -4

\* ----------------------------------------------------------------- C17
\* The state part of C17: every task in the queue carries a non-zero delta,
\* and a winner of the gate that found nothing to persist has no task.
C17_NonZero ==
    /\ \A j \in 1..Len(queue) : queue[j].delta # 0
    /\ \A n \in Names : \A i \in 1..Len(log[n]) :
          (log[n][i].won /\ log[n][i].D = 0)
              => \A j \in JobsOf(n) : queue[j].call # i

\* The step part of C17: the call that wins the gate with its raw value equal
\* to BASE_VALUE returns at once; queue, cache slot and record stay as they are.
C17_NothingToSave ==
    \A p \in Procs :
        (pc[p] = "add" /\ idx[p] > 0 /\ log'[name[p]][idx[p]].won /\ v[p] = BASE_VALUE)
            => /\ pc'[p] = "done"
               /\ queue' = queue
               /\ ctr_val' = ctr_val
               /\ Counter' = Counter

\* C17: no task ever carries a zero delta: a winner of the gate that observes
\* BASE_VALUE submits nothing and touches nothing.
C17_NoZeroJob == [](C17_NonZero) /\ [][C17_NothingToSave]_vars

\* Non-zero increments cancelled out: a call with a non-zero delta won the
\* gate, observed BASE_VALUE and returned without a task.
C17_Witness ==
    \E n \in Names : \E i \in 1..Len(log[n]) :
        /\ i > 1
        /\ log[n][i].won /\ log[n][i].D = 0 /\ log[n][i].delta # 0
        /\ AppliedUpTo(n, i) = 0
        /\ ctr_val[n] = BASE_VALUE
        /\ \A p \in Procs : Returned(p)
        /\ \A j \in JobsOf(n) : queue[j].call # i

\* ----------------------------------------------------------------- C18
\* The state part of C18: a record exists only once a task on its name has
\* been executed.
C18_AbsentUntilFlushed ==
    \A n \in Names :
        /\ Counter[n].present => Commits(n) > 0
        /\ ~Counter[n].present => Counter[n] = NoCounter

\* The step part of C18: a record changes only in a step that executes a task
\* on its name, no step of a request inside incr changes any record, and a
\* record that exists is never removed.
C18_OnlyPersister ==
    /\ \A n \in Names :
          /\ Counter'[n] # Counter[n]
                => \E j \in JobsOf(n) : queue'[j].runs = queue[j].runs + 1
          /\ Counter[n].present => Counter'[n].present
    /\ (pc' # pc) => Counter' = Counter

\* C18: the durable record is written by the execution of a persistence task
\* and by nothing else, is absent until the first one and is never deleted.
C18_DurableFrame == [](C18_AbsentUntilFlushed) /\ [][C18_OnlyPersister]_vars

\* incr has run to its end on both names and both tasks were accepted: the
\* task on x was executed twice and x has its record, the task on y has not
\* run and y has none.
C18_Witness ==
    /\ \A p \in Procs : Returned(p)
    /\ Counter["x"].present /\ Commits("x") = 2
    /\ ~Counter["y"].present /\ JobsOf("y") # {}

\* ----------------------------------------------------------------- C19
\* Sum of the absolute values of the deltas of the calls in s.
RECURSIVE SumAbs(_)
SumAbs(s) ==
    IF s = <<>> THEN 0
    ELSE (IF s[1].delta >= 0 THEN s[1].delta ELSE 0 - s[1].delta) + SumAbs(Tail(s))

\* C19: as long as the absolute values of the deltas passed to incr(name) sum
\* to less than BASE_VALUE, the raw slot stays strictly between 0 and
\* 2^WordBits - 1 under every interleaving of calls and flushes.
C19_InRange ==
    \A n \in Names :
        (ctr_val[n] # None /\ SumAbs(log[n]) < BASE_VALUE)
            => 0 < ctr_val[n] /\ ctr_val[n] < Modulus - 1

\* ----------------------------------------------------------------- C20
\* C20: in a fault-free run with non-negative deltas, in every reachable state
\* what get_count would return, durable value + (raw slot - BASE_VALUE), is at
\* most the sum of the deltas of the calls whose cache increment took effect.
C20_NoOvercount ==
    \A n \in Names : Durable(n) + Offset(n) <= Applied(n)

====
